---- MODULE Spec2Model ----
(***************************************************************************)
(* Model of serve.py, the development HTTP server of the Linux Hardware    *)
(* Compatibility Database: the request handler LXHWDBHandler and main().   *)
(*                                                                         *)
(* One action handles one request from the request line to the end of the  *)
(* handler.  The connection is assumed to stay writable while the handler  *)
(* runs; the two data files are environment state that changes between     *)
(* requests.  Record constructors list their fields in the order TLC keeps *)
(* them in.                                                                *)
(***************************************************************************)
EXTENDS Integers, Sequences, FiniteSets, TLC

VARIABLES
    files,          \* data file name -> state of that file on disk
    server,         \* "down", "serving", "invalid_port", "port_in_use", "stopped"
    missing_files,  \* main's local list of the data files absent at startup
    tick,           \* parity of the number of requests handled by this process
    request,        \* the request handled last
    responses,      \* the responses sent for that request, in order
    log,            \* the lines printed while handling that request
    raised,         \* the exception that escaped the handler, or "none"
    body_read,      \* rfile.read was called for that request
    body_parsed     \* json.loads was called for that request

vars == <<files, server, missing_files, tick, request, responses, log, raised,
          body_read, body_parsed>>

-----------------------------------------------------------------------------
(* Bounds of the model *)

MaxNum == 1     \* numbers in the data files range over 0..MaxNum
MaxLen == 2     \* strings in the data files have at most MaxLen characters
BodyLen == 2    \* byte length of the small request bodies

Alphabet == {1, 2}  \* character codes; the order of the codes is the order of the characters

-----------------------------------------------------------------------------
(* Python values as json.load produces them *)

NullVal == [t |-> "null", n |-> 0, s |-> <<>>]
IntVal(i) == [t |-> "int", n |-> i, s |-> <<>>]
FloatVal(i) == [t |-> "float", n |-> i, s |-> <<>>]
StrVal(q) == [t |-> "str", n |-> 0, s |-> q]
ListVal == [t |-> "list"]
Obj(f) == [t |-> "obj", o |-> f]
Lit(x) == [t |-> "pystr", lit |-> x]

EmptyFcn == [x \in {} |-> NullVal]
EmptyObj == Obj(EmptyFcn)

IsNum(v) == v.t \in {"int", "float"}
IsStr(v) == v.t = "str"
IsDict(v) == v.t = "obj"

(* The result of evaluating a Python expression: a value or an exception *)
Ok(v) == [exc |-> "none", val |-> v]
Raise(e) == [exc |-> e, val |-> NullVal]

(* d.get(key, default) *)
dict_get(d, key, default) ==
    IF ~IsDict(d) THEN Raise("AttributeError")
    ELSE IF key \in DOMAIN d.o THEN Ok(d.o[key]) ELSE Ok(default)

(* d[key] *)
subscript(d, key) ==
    IF ~IsDict(d) THEN Raise("TypeError")
    ELSE IF key \in DOMAIN d.o THEN Ok(d.o[key]) ELSE Raise("KeyError")

(* a < b on str: code point by code point, a proper prefix is smaller *)
RECURSIVE StrLess(_, _)
StrLess(a, b) ==
    IF b = <<>> THEN FALSE
    ELSE IF a = <<>> THEN TRUE
    ELSE IF a[1] # b[1] THEN a[1] < b[1]
    ELSE StrLess(Tail(a), Tail(b))

(* a > b is defined between two numbers and between two strings *)
Comparable(a, b) == (IsNum(a) /\ IsNum(b)) \/ (IsStr(a) /\ IsStr(b))
PyGt(a, b) == IF IsNum(a) THEN a.n > b.n ELSE StrLess(b.s, a.s)

(* a + b is defined between two numbers and between two strings *)
Addable(a, b) == (IsNum(a) /\ IsNum(b)) \/ (IsStr(a) /\ IsStr(b))
PySum(a, b) ==
    IF IsNum(a)
    THEN IF a.t = "float" \/ b.t = "float" THEN FloatVal(a.n + b.n) ELSE IntVal(a.n + b.n)
    ELSE StrVal(a.s \o b.s)
py_add(a, b) == IF Addable(a, b) THEN Ok(PySum(a, b)) ELSE Raise("TypeError")

(* max(a, b): the first argument unless the second is greater *)
MaxTieSecond(a, b) == IF PyGt(a, b) THEN a ELSE b
PyMax(a, b) == IF PyGt(b, a) THEN b ELSE a
py_max(a, b) == IF Comparable(a, b) THEN Ok(PyMax(a, b)) ELSE Raise("TypeError")

(* the first exception of a sequence of evaluations, "none" without one *)
RECURSIVE FirstExc(_)
FirstExc(rs) ==
    IF rs = <<>> THEN "none"
    ELSE IF Head(rs).exc # "none" THEN Head(rs).exc
    ELSE FirstExc(Tail(rs))

-----------------------------------------------------------------------------
(* The data files *)

HW == "data/hardware-database.json"
TIPS == "data/configuration-tips.json"
data_files == {HW, TIPS}

Missing == [st |-> "missing", fmt |-> "", value |-> NullVal]
Unreadable == [st |-> "unreadable", fmt |-> "", value |-> NullVal]
Garbage == [st |-> "garbage", fmt |-> "", value |-> NullVal]
JsonFile(fmt, v) == [st |-> "json", fmt |-> fmt, value |-> v]

(* json.load(open(name, 'r')) *)
load_json(fs, name) ==
    CASE fs[name].st = "missing" -> Raise("FileNotFoundError")
      [] fs[name].st = "unreadable" -> Raise("PermissionError")
      [] fs[name].st = "garbage" -> Raise("JSONDecodeError")
      [] OTHER -> Ok(fs[name].value)

(* json.dumps(v).encode('utf-8'): the value in json's default layout *)
Dumps(v) == [fmt |-> "default", value |-> v, kind |-> "json"]

Strings == UNION {[1..k -> Alphabet] : k \in 0..MaxLen}
NumVals == {IntVal(i) : i \in 0..MaxNum} \cup {FloatVal(i) : i \in 0..MaxNum}
TotalVals == {IntVal(i) : i \in 0..MaxNum} \cup {FloatVal(MaxNum), StrVal(<<1>>), NullVal}
StampVals == {StrVal(q) : q \in Strings} \cup NumVals \cup {NullVal}

TotalKey(name) == IF name = HW THEN "total_hardware" ELSE "total_tips"

StatsObjs(name) ==
    {Obj([x \in {TotalKey(name), "last_updated"} |->
            IF x = "last_updated" THEN b ELSE a]) : a \in TotalVals, b \in StampVals}
    \cup {Obj([x \in {TotalKey(name)} |-> a]) : a \in TotalVals}
    \cup {Obj([x \in {"last_updated"} |-> b]) : b \in StampVals}
    \cup {EmptyObj}

Docs(name) ==
    {Obj([statistics |-> q]) : q \in StatsObjs(name) \cup {NullVal}}
    \cup {EmptyObj, ListVal}

AllFileStates(name) ==
    {Missing, Unreadable, Garbage} \cup {JsonFile("indented", d) : d \in Docs(name)}

(* the file states the environment moves between while the server runs *)
SmallDocs(name) ==
    {Obj([statistics |-> Obj([x \in {TotalKey(name), "last_updated"} |->
            IF x = "last_updated" THEN StrVal(<<c>>) ELSE IntVal(MaxNum)])]) : c \in Alphabet}
FileStates(name) ==
    {Missing, Unreadable, Garbage} \cup {JsonFile("indented", d) : d \in SmallDocs(name)}

FileSystems ==
    {[n \in data_files |-> IF n = HW THEN h ELSE t] : h \in FileStates(HW), t \in FileStates(TIPS)}
AllFileSystems ==
    {[n \in data_files |-> IF n = HW THEN h ELSE t] : h \in AllFileStates(HW), t \in AllFileStates(TIPS)}

-----------------------------------------------------------------------------
(* Requests *)

POST_LIMIT == 10 * 1024 * 1024

(* a header value or a command line argument: absent, a decimal number, or other text *)
AbsentText == [n |-> 0, kind |-> "absent"]
Digits(i) == [n |-> i, kind |-> "digits"]
OtherText == [n |-> 0, kind |-> "text"]

(* int(x) of a header value or argument, x being the default when it is absent *)
py_int(x, default) ==
    CASE x.kind = "absent" -> Ok(IntVal(default))
      [] x.kind = "digits" -> Ok(IntVal(x.n))
      [] OTHER -> Raise("ValueError")

(* a request body: its length in bytes, whether the bytes are UTF-8, and what the text is *)
NoBody == [value |-> NullVal, len |-> 0, utf8 |-> TRUE, syntax |-> "empty"]
JsonBody(n, v) == [value |-> v, len |-> n, utf8 |-> TRUE, syntax |-> "ok"]
TruncatedBody(n) == [value |-> NullVal, len |-> n, utf8 |-> TRUE, syntax |-> "truncated"]
UndecodableBody(n) == [value |-> NullVal, len |-> n, utf8 |-> FALSE, syntax |-> "ok"]

Payloads ==
    {EmptyObj, ListVal,
     Obj([id |-> StrVal(<<1>>)]), Obj([id |-> NullVal]),
     Obj([title |-> StrVal(<<2>>)]),
     Obj([id |-> StrVal(<<1>>), title |-> StrVal(<<2>>)])}

Bodies ==
    {NoBody}
    \cup {JsonBody(BodyLen, v) : v \in Payloads}
    \cup {TruncatedBody(BodyLen), UndecodableBody(BodyLen)}
    \cup {JsonBody(n, Obj([id |-> StrVal(<<1>>)])) : n \in {POST_LIMIT, POST_LIMIT + 1}}
    \cup {TruncatedBody(n) : n \in {POST_LIMIT, POST_LIMIT + 1}}

(* a path is the sequence of its segments: "/api/tips" is <<"api", "tips">>, "/api/" is <<"api", "">> *)
Paths ==
    {<<"api", "hardware">>, <<"api", "tips">>, <<"api", "statistics">>,
     <<"api", "hardware", "submit">>, <<"api", "tips", "submit">>,
     <<"api", "unknown">>, <<"api", "">>, <<"api">>,
     <<"index.html">>, <<"missing.html">>}
QueriedPaths == {<<"api", "statistics">>, <<"api", "tips", "submit">>, <<"api", "unknown">>}
Targets ==
    {[path |-> p, query |-> ""] : p \in Paths} \cup {[path |-> p, query |-> "v=1"] : p \in QueriedPaths}

Req(m, t, h, b) == [method |-> m, target |-> t, content_length |-> h, body |-> b]
NoRequest == Req("NONE", [path |-> <<>>, query |-> ""], AbsentText, NoBody)

GetRequests == {Req("GET", t, AbsentText, NoBody) : t \in Targets}
OptionsRequests == {Req("OPTIONS", t, AbsentText, NoBody) : t \in Targets}
OtherRequests == {Req(m, t, AbsentText, NoBody) : m \in {"HEAD", "PUT"}, t \in Targets}

(* POST requests: the Content-Length header gives the body's length, is missing, or is not a number *)
PostTargets ==
    {t \in Targets :
        /\ t.query = "" \/ t.path = <<"api", "tips", "submit">>
        /\ t.path \notin {<<"api", "tips">>, <<"api", "statistics">>, <<"missing.html">>}}
PostRequests ==
    {Req("POST", t, Digits(b.len), b) : t \in PostTargets, b \in Bodies}
    \cup {Req("POST", t, h, b) : t \in PostTargets, h \in {AbsentText, OtherText},
                                  b \in {NoBody, JsonBody(BodyLen, EmptyObj)}}

(* urlparse(self.path): the path without the query *)
urlparse(target) == [path |-> target.path, query |-> target.query]

(* path.startswith('/api/') *)
startswith_api_noslash(path) == Len(path) >= 1 /\ path[1] = "api"
startswith_api(path) == Len(path) >= 2 /\ path[1] = "api"

-----------------------------------------------------------------------------
(* Responses *)

Msg(text) == [path |-> <<>>, text |-> text]
MsgPath(text, path) == [path |-> path, text |-> text]

EmptyBody == [kind |-> "empty"]
ErrorPage(code, message) == [kind |-> "error_page", code |-> code, message |-> message]
FileBody(path) == [kind |-> "file", path |-> path]

send_response(code, message) ==
    [body |-> EmptyBody, message |-> message, status |-> code, headers |-> {}, ended |-> FALSE]
send_header(r, name, value) ==
    [body |-> r.body, message |-> r.message, status |-> r.status,
     headers |-> r.headers \cup {<<name, value>>}, ended |-> r.ended]
wfile_write(r, body) ==
    [body |-> body, message |-> r.message, status |-> r.status,
     headers |-> r.headers, ended |-> r.ended]

(* BaseHTTPRequestHandler.end_headers *)
super_end_headers(r) ==
    [body |-> r.body, message |-> r.message, status |-> r.status,
     headers |-> r.headers, ended |-> TRUE]

CORS ==
    {<<"Access-Control-Allow-Origin", "*">>,
     <<"Access-Control-Allow-Methods", "GET, POST, OPTIONS">>,
     <<"Access-Control-Allow-Headers", "Content-Type">>}

end_headers_no_origin(r) ==
    super_end_headers(
        send_header(
            send_header(r, "Access-Control-Allow-Methods", "GET, POST, OPTIONS"),
            "Access-Control-Allow-Headers", "Content-Type"))
end_headers(r) ==
    super_end_headers(
        send_header(
            send_header(
                send_header(r, "Access-Control-Allow-Origin", "*"),
                "Access-Control-Allow-Methods", "GET, POST, OPTIONS"),
            "Access-Control-Allow-Headers", "Content-Type"))

(* self.send_error(code, message): status line, headers, self.end_headers(), error page *)
send_error(code, message) ==
    wfile_write(
        end_headers(
            send_header(
                send_header(send_response(code, message), "Content-Type", "text/html;charset=utf-8"),
                "Connection", "close")),
        ErrorPage(code, message))

(* a 200 response with a JSON body, as each handler writes it *)
send_json(v) ==
    wfile_write(
        end_headers(send_header(send_response(200, Msg("OK")), "Content-Type", "application/json")),
        Dumps(v))

LogLine(text, exc, val) == [exc |-> exc, val |-> val, text |-> text]

(* what a handler did: the responses sent, the lines printed, the exception that escaped *)
Out(rs, lg) == [responses |-> rs, log |-> lg, raised |-> "none", read |-> FALSE, parsed |-> FALSE]

-----------------------------------------------------------------------------
(* GET handlers *)

serve_hardware_database_at_startup(fs) ==
    IF HW \in missing_files
    THEN Out(<<send_error(404, Msg("Hardware database not found"))>>, <<>>)
    ELSE Out(<<send_json(fs[HW].value)>>, <<>>)
serve_hardware_database(fs) ==
    LET data == load_json(fs, HW) IN
    IF data.exc = "none" THEN Out(<<send_json(data.val)>>, <<>>)
    ELSE IF data.exc = "FileNotFoundError"
    THEN Out(<<send_error(404, Msg("Hardware database not found"))>>, <<>>)
    ELSE Out(<<send_error(500, Msg("Error loading hardware database"))>>,
             <<LogLine("Error serving hardware database: ", data.exc, NullVal)>>)

serve_configuration_tips_from_hardware(fs) ==
    LET data == load_json(fs, HW) IN
    IF data.exc = "none" THEN Out(<<send_json(data.val)>>, <<>>)
    ELSE IF data.exc = "FileNotFoundError"
    THEN Out(<<send_error(404, Msg("Configuration tips database not found"))>>, <<>>)
    ELSE Out(<<send_error(500, Msg("Error loading configuration tips"))>>,
             <<LogLine("Error serving configuration tips: ", data.exc, NullVal)>>)
serve_configuration_tips(fs) ==
    LET data == load_json(fs, TIPS) IN
    IF data.exc = "none" THEN Out(<<send_json(data.val)>>, <<>>)
    ELSE IF data.exc = "FileNotFoundError"
    THEN Out(<<send_error(404, Msg("Configuration tips database not found"))>>, <<>>)
    ELSE Out(<<send_error(500, Msg("Error loading configuration tips"))>>,
             <<LogLine("Error serving configuration tips: ", data.exc, NullVal)>>)

(* the evaluations of the combined_stats literal, in the order Python makes them *)
stats_steps(hardware_data, tips_data) ==
    LET h_get == dict_get(hardware_data, "statistics", EmptyObj)
        t_get == dict_get(tips_data, "statistics", EmptyObj)
        h_stats == subscript(hardware_data, "statistics")
        h_total == subscript(h_stats.val, "total_hardware")
        t_stats == subscript(tips_data, "statistics")
        t_total == subscript(t_stats.val, "total_tips")
        total == py_add(h_total.val, t_total.val)
        h_upd == subscript(h_stats.val, "last_updated")
        t_upd == subscript(t_stats.val, "last_updated")
        latest == py_max(h_upd.val, t_upd.val)
    IN  [value |-> Obj([hardware |-> h_get.val,
                        tips |-> t_get.val,
                        combined |-> Obj([total_entries |-> total.val,
                                          last_updated |-> latest.val])]),
         order |-> <<h_get, t_get, h_stats, h_total, t_stats, t_total, total,
                     h_stats, h_upd, t_stats, t_upd, latest>>]

stats_failure(exc) ==
    Out(<<send_error(500, Msg("Error loading statistics"))>>,
        <<LogLine("Error serving statistics: ", exc, NullVal)>>)

serve_statistics_defaulting(fs) ==
    LET hardware_data == load_json(fs, HW)
        tips_data == load_json(fs, TIPS)
    IN  IF hardware_data.exc = "FileNotFoundError" \/ tips_data.exc = "FileNotFoundError"
        THEN Out(<<send_error(404, Msg("Statistics not found"))>>, <<>>)
        ELSE IF hardware_data.exc # "none" THEN stats_failure(hardware_data.exc)
        ELSE IF tips_data.exc # "none" THEN stats_failure(tips_data.exc)
        ELSE LET steps == stats_steps(hardware_data.val, tips_data.val) IN
             IF FirstExc(steps.order) \in {"KeyError", "TypeError"}
                /\ steps.order[1].exc = "none" /\ steps.order[2].exc = "none"
             THEN Out(<<send_json(Obj([hardware |-> steps.order[1].val,
                                       tips |-> steps.order[2].val]))>>, <<>>)
             ELSE IF FirstExc(steps.order) # "none" THEN stats_failure(FirstExc(steps.order))
             ELSE Out(<<send_json(steps.value)>>, <<>>)
serve_statistics(fs) ==
    LET hardware_data == load_json(fs, HW)
        tips_data == load_json(fs, TIPS)
    IN  IF hardware_data.exc # "none" THEN stats_failure(hardware_data.exc)
        ELSE IF tips_data.exc # "none" THEN stats_failure(tips_data.exc)
        ELSE LET steps == stats_steps(hardware_data.val, tips_data.val) IN
             IF FirstExc(steps.order) # "none" THEN stats_failure(FirstExc(steps.order))
             ELSE Out(<<send_json(steps.value)>>, <<>>)

handle_api_request_plain_404(fs, parsed_path) ==
    LET path == parsed_path.path IN
    IF path = <<"api", "hardware">> THEN serve_hardware_database(fs)
    ELSE IF path = <<"api", "tips">> THEN serve_configuration_tips(fs)
    ELSE IF path = <<"api", "statistics">> THEN serve_statistics(fs)
    ELSE Out(<<send_error(404, Msg("Not Found"))>>, <<>>)
handle_api_request(fs, parsed_path) ==
    LET path == parsed_path.path IN
    IF path = <<"api", "hardware">> THEN serve_hardware_database(fs)
    ELSE IF path = <<"api", "tips">> THEN serve_configuration_tips(fs)
    ELSE IF path = <<"api", "statistics">> THEN serve_statistics(fs)
    ELSE Out(<<send_error(404, MsgPath("API endpoint not found: ", path))>>, <<>>)

(* SimpleHTTPRequestHandler.do_GET on the document root *)
StaticFiles == {<<"index.html">>}
static_head(path) ==
    IF path \in StaticFiles
    THEN end_headers(send_header(send_response(200, Msg("OK")), "Content-type", "text/html"))
    ELSE send_error(404, Msg("File not found"))
static_do_GET(parsed_path) ==
    LET r == static_head(parsed_path.path) IN
    Out(<<IF r.status = 200 THEN wfile_write(r, FileBody(parsed_path.path)) ELSE r>>, <<>>)

-----------------------------------------------------------------------------
(* POST handlers *)

(* what a submission handler did before it returned or raised *)
Sub(exc, rs, lg) == [responses |-> rs, log |-> lg, exc |-> exc]

(* os.time(): the os module has no attribute 'time' *)
os_time == Raise("AttributeError")

(* f'{prefix}{int(os.time())}', evaluated as an argument before data.get is called *)
generated_id(prefix) ==
    IF os_time.exc # "none" THEN Raise(os_time.exc)
    ELSE Ok([t |-> "generated", prefix |-> prefix, time |-> os_time.val])

submission(data, shown_key, shown_default, log_text, prefix, message) ==
    LET shown == dict_get(data, shown_key, Lit(shown_default)) IN
    IF shown.exc # "none" THEN Sub(shown.exc, <<>>, <<>>)
    ELSE LET line == LogLine(log_text, "", shown.val)
             fallback == generated_id(prefix)
         IN  IF fallback.exc # "none" THEN Sub(fallback.exc, <<>>, <<line>>)
             ELSE LET id == dict_get(data, "id", fallback.val) IN
                  Sub("none",
                      <<send_json(Obj([id |-> id.val,
                                       message |-> Lit(message),
                                       status |-> Lit("success")]))>>,
                      <<line>>)

handle_hardware_submission(data) ==
    submission(data, "id", "unknown", "Received hardware submission: ", "hw_",
               "Hardware report received and will be processed")

handle_tip_submission(data) ==
    submission(data, "title", "untitled", "Received configuration tip: ", "tip_",
               "Configuration tip submitted for moderation")

(* self.rfile.read(n): nothing for n = 0, else the body, whose length the header gave *)
rfile_read(body, n) == IF n = 0 THEN NoBody ELSE body

(* post_data.decode('utf-8') *)
decode_utf8(bytes) == IF bytes.utf8 THEN Ok(bytes) ELSE Raise("UnicodeDecodeError")

(* json.loads(text) *)
json_loads(text) == IF text.syntax = "ok" THEN Ok(text.value) ELSE Raise("JSONDecodeError")

too_large_inclusive(n) == n >= POST_LIMIT
too_large(n) == n > POST_LIMIT

handle_api_post(path, req) ==
    LET content_length == py_int(req.content_length, 0) IN
    IF content_length.exc # "none"
    THEN [responses |-> <<>>, log |-> <<>>, raised |-> content_length.exc,
          read |-> FALSE, parsed |-> FALSE]
    ELSE IF too_large(content_length.val.n)
    THEN Out(<<send_error(413, Msg("Request too large"))>>, <<>>)
    ELSE LET post_data == rfile_read(req.body, content_length.val.n)
             text == decode_utf8(post_data)
             data == IF text.exc # "none" THEN text ELSE json_loads(text.val)
             done ==
                 IF data.exc # "none" THEN Sub(data.exc, <<>>, <<>>)
                 ELSE IF path = <<"api", "hardware", "submit">>
                 THEN handle_hardware_submission(data.val)
                 ELSE IF path = <<"api", "tips", "submit">>
                 THEN handle_tip_submission(data.val)
                 ELSE Sub("none", <<send_error(404, MsgPath("API endpoint not found: ", path))>>, <<>>)
         IN  [responses |->
                  done.responses \o
                  (IF done.exc = "none" THEN <<>>
                   ELSE IF done.exc = "JSONDecodeError"
                   THEN <<send_error(400, Msg("Invalid JSON data"))>>
                   ELSE <<send_error(500, Msg("Internal server error"))>>),
              log |->
                  done.log \o
                  (IF done.exc \in {"none", "JSONDecodeError"} THEN <<>>
                   ELSE <<LogLine("Error handling POST request: ", done.exc, NullVal)>>),
              raised |-> "none",
              read |-> TRUE,
              parsed |-> text.exc = "none"]

-----------------------------------------------------------------------------
(* The server process and its environment *)

(* the handler's effect on the process: the request is answered, nothing else changes *)
Handled(req, out) ==
    /\ request' = req
    /\ responses' = out.responses
    /\ log' = out.log
    /\ raised' = out.raised
    /\ body_read' = out.read
    /\ body_parsed' = out.parsed

do_OPTIONS ==
    \E req \in OptionsRequests :
        /\ server = "serving"
        /\ Handled(req, Out(<<end_headers(send_response(200, Msg("OK")))>>, <<>>))
        /\ tick' = 1 - tick
        /\ UNCHANGED <<files, server, missing_files>>

do_GET ==
    \E req \in GetRequests :
        LET parsed_path == urlparse(req.target) IN
        /\ server = "serving"
        /\ Handled(req, IF startswith_api(parsed_path.path)
                        THEN handle_api_request(files, parsed_path)
                        ELSE static_do_GET(parsed_path))
        /\ tick' = 1 - tick
        /\ UNCHANGED <<files, server, missing_files>>

do_POST ==
    \E req \in PostRequests :
        LET parsed_path == urlparse(req.target) IN
        /\ server = "serving"
        /\ Handled(req, IF startswith_api(parsed_path.path)
                        THEN handle_api_post(parsed_path.path, req)
                        ELSE Out(<<send_error(404, Msg("Not Found"))>>, <<>>))
        /\ tick' = 1 - tick
        /\ UNCHANGED <<files, server, missing_files>>

(* the methods LXHWDBHandler inherits or lacks: HEAD is served as a static file, headers *)
(* only, and any other method is answered 501 by the base class *)
inherited_method ==
    \E req \in OtherRequests :
        /\ server = "serving"
        /\ Handled(req, IF req.method = "HEAD"
                        THEN Out(<<wfile_write(static_head(urlparse(req.target).path), EmptyBody)>>, <<>>)
                        ELSE Out(<<send_error(501, Msg("Unsupported method ('PUT')"))>>, <<>>))
        /\ tick' = 1 - tick
        /\ UNCHANGED <<files, server, missing_files>>

(* a process that has handled no request yet *)
Idle ==
    /\ tick = 0
    /\ request = NoRequest
    /\ responses = <<>>
    /\ log = <<>>
    /\ raised = "none"
    /\ body_read = FALSE
    /\ body_parsed = FALSE

NewProcess ==
    /\ tick' = 0
    /\ request' = NoRequest
    /\ responses' = <<>>
    /\ log' = <<>>
    /\ raised' = "none"
    /\ body_read' = FALSE
    /\ body_parsed' = FALSE

Argvs == {AbsentText, Digits(8080), OtherText}

main_needs_data(argv, port_in_use) ==
    /\ server # "serving"
    /\ LET port == py_int(argv, 8000)
           missing == {f \in data_files : files[f].st = "missing"}
       IN  /\ missing_files' = IF port.exc # "none" THEN {} ELSE missing
           /\ server' = IF port.exc # "none" THEN "invalid_port"
                        ELSE IF missing # {} THEN "down"
                        ELSE IF port_in_use THEN "port_in_use"
                        ELSE "serving"
    /\ NewProcess
    /\ UNCHANGED files
main(argv, port_in_use) ==
    /\ server # "serving"
    /\ LET port == py_int(argv, 8000)
           missing == {f \in data_files : files[f].st = "missing"}
       IN  /\ missing_files' = IF port.exc # "none" THEN {} ELSE missing
           /\ server' = IF port.exc # "none" THEN "invalid_port"
                        ELSE IF port_in_use THEN "port_in_use"
                        ELSE "serving"
    /\ NewProcess
    /\ UNCHANGED files

Start == \E argv \in Argvs, port_in_use \in BOOLEAN : main(argv, port_in_use)

(* Ctrl+C ends serve_forever and the process *)
KeyboardInterrupt ==
    /\ server = "serving"
    /\ server' = "stopped"
    /\ missing_files' = {}
    /\ NewProcess
    /\ UNCHANGED files

(* the environment creates, replaces or deletes a data file *)
data_file_change ==
    \E f \in data_files : \E st \in FileStates(f) :
        /\ st # files[f]
        /\ files' = [files EXCEPT ![f] = st]
        /\ UNCHANGED <<server, missing_files, tick, request, responses, log, raised,
                       body_read, body_parsed>>

Init ==
    /\ files \in FileSystems
    /\ server = "down"
    /\ missing_files = {}
    /\ Idle

Next ==
    \/ Start
    \/ KeyboardInterrupt
    \/ data_file_change
    \/ do_OPTIONS
    \/ do_GET
    \/ do_POST
    \/ inherited_method

Spec == Init /\ [][Next]_vars

(* the GET endpoints over every shape of the two documents: a serving process started *)
(* on the files as they are, the files staying as they are *)
InitDocuments ==
    /\ files \in AllFileSystems
    /\ server = "serving"
    /\ missing_files = {n \in data_files : files[n].st = "missing"}
    /\ Idle

NextDocuments == do_GET

SpecDocuments == InitDocuments /\ [][NextDocuments]_vars

-----------------------------------------------------------------------------
(* Properties *)

ReqPath == urlparse(request.target).path
IsReq(method, path) == request.method = method /\ ReqPath = path

(* exactly one response was sent, with this status and message *)
One(code, message) ==
    /\ Len(responses) = 1
    /\ responses[1].status = code
    /\ responses[1].message = message

SubmitPaths == {<<"api", "hardware", "submit">>, <<"api", "tips", "submit">>}

(* a POST whose Content-Length is the length of its body, at most 10 MiB *)
FramedPost ==
    /\ request.method = "POST"
    /\ request.content_length.kind = "digits"
    /\ request.content_length.n <= 10 * 1024 * 1024

(* the body of the request is UTF-8 text holding a JSON value *)
ValidJsonBody == request.body.utf8 /\ request.body.syntax = "ok"

Acknowledged(message, prefix) ==
    /\ One(200, Msg("OK"))
    /\ responses[1].body.kind = "json"
    /\ LET ack == responses[1].body.value
           payload == request.body.value
       IN  /\ IsDict(ack)
           /\ DOMAIN ack.o = {"status", "message", "id"}
           /\ ack.o.status = Lit("success")
           /\ ack.o.message = Lit(message)
           /\ IF IsDict(payload) /\ "id" \in DOMAIN payload.o
              THEN ack.o.id = payload.o.id
              ELSE ack.o.id.t = "generated" /\ ack.o.id.prefix = prefix

(* C1: a POST of valid JSON of at most 10 MiB to a submit endpoint is answered 200 with *)
(* status "success", the endpoint's fixed message, and the payload's id or a generated *)
(* id prefixed hw_ or tip_ *)
C1_SubmitAcknowledged ==
    (FramedPost /\ ValidJsonBody /\ ReqPath \in SubmitPaths) =>
        IF ReqPath = <<"api", "hardware", "submit">>
        THEN Acknowledged("Hardware report received and will be processed", "hw_")
        ELSE Acknowledged("Configuration tip submitted for moderation", "tip_")

(* C2: every response sent, whatever the method, path and outcome, has finished its *)
(* headers and carries the three CORS headers *)
C2_CorsOnEveryResponse ==
    \A i \in 1..Len(responses) :
        /\ responses[i].ended
        /\ <<"Access-Control-Allow-Origin", "*">> \in responses[i].headers
        /\ <<"Access-Control-Allow-Methods", "GET, POST, OPTIONS">> \in responses[i].headers
        /\ <<"Access-Control-Allow-Headers", "Content-Type">> \in responses[i].headers

C2_Witness ==
    /\ request.method = "POST"
    /\ Len(responses) = 1
    /\ responses[1].status = 500
    /\ CORS \subseteq responses[1].headers

(* C3: a POST under /api/ declaring more than 10 MiB is answered 413 with the body *)
(* neither read nor parsed, whatever the path; one declaring 10 MiB or less is never *)
(* answered 413 *)
C3_SizeCap ==
    (request.method = "POST" /\ startswith_api(ReqPath) /\ request.content_length.kind = "digits") =>
        IF request.content_length.n > 10 * 1024 * 1024
        THEN One(413, Msg("Request too large")) /\ ~body_read /\ ~body_parsed
        ELSE \A i \in 1..Len(responses) : responses[i].status # 413

C3_Witness ==
    /\ request.method = "POST"
    /\ ReqPath = <<"api", "unknown">>
    /\ request.content_length.n = 10 * 1024 * 1024 + 1
    /\ One(413, Msg("Request too large"))
    /\ ~body_read

(* C4: a POST to a submit endpoint whose body, within the cap, is not UTF-8 JSON (empty, *)
(* truncated, undecodable) is answered 400 "Invalid JSON data", and no submission is *)
(* handled or logged *)
C4_InvalidJsonIs400 ==
    (FramedPost /\ ~ValidJsonBody /\ ReqPath \in SubmitPaths) =>
        /\ One(400, Msg("Invalid JSON data"))
        /\ log = <<>>

(* the endpoints the dispatcher routes *)
Routed(method, path) ==
    \/ method = "GET" /\ path \in {<<"api", "hardware">>, <<"api", "tips">>, <<"api", "statistics">>}
    \/ method = "POST" /\ path \in SubmitPaths

NotFoundWithPath == One(404, MsgPath("API endpoint not found: ", ReqPath))

(* C5 as stated: every GET or POST to an unrouted path under /api/ is answered 404 *)
(* "API endpoint not found: <path>" whatever its body and Content-Length, and every POST *)
(* outside /api/ is answered 404 *)
C5_Unrouted404Always ==
    /\ (request.method \in {"GET", "POST"} /\ startswith_api(ReqPath)
            /\ ~Routed(request.method, ReqPath)) => NotFoundWithPath
    /\ (request.method = "POST" /\ ~startswith_api(ReqPath)) => One(404, Msg("Not Found"))

(* C5 amended: every GET to an unrouted path under /api/ is answered 404 "API endpoint *)
(* not found: <path>"; a POST to such a path is answered so when its Content-Length is *)
(* the length of its body, at most 10 MiB, and the body is valid UTF-8 JSON; every POST *)
(* outside /api/ is answered 404 *)
C5_Unrouted404 ==
    /\ (request.method = "GET" /\ startswith_api(ReqPath) /\ ~Routed("GET", ReqPath))
            => NotFoundWithPath
    /\ (FramedPost /\ ValidJsonBody /\ startswith_api(ReqPath) /\ ~Routed("POST", ReqPath))
            => NotFoundWithPath
    /\ (request.method = "POST" /\ ~startswith_api(ReqPath)) => One(404, Msg("Not Found"))

C5_Witness ==
    /\ FramedPost /\ ValidJsonBody
    /\ ReqPath = <<"api", "hardware">>
    /\ NotFoundWithPath

(* the document of a data file and its statistics block, when it has them *)
Doc(name) == files[name].value
Stats(name) == Doc(name).o.statistics

HasStats(name) ==
    /\ files[name].st = "json"
    /\ IsDict(Doc(name))
    /\ "statistics" \in DOMAIN Doc(name).o
    /\ IsDict(Stats(name))
    /\ {TotalKey(name), "last_updated"} \subseteq DOMAIN Stats(name).o

Total(name) == Stats(name).o[TotalKey(name)]
Updated(name) == Stats(name).o.last_updated

(* a is a proper prefix of b, or smaller at the first position where they differ *)
LexLess(a, b) ==
    \E k \in 0..Len(a) :
        /\ k <= Len(b)
        /\ \A i \in 1..k : a[i] = b[i]
        /\ \/ k = Len(a) /\ k < Len(b)
           \/ k < Len(a) /\ k < Len(b) /\ a[k + 1] < b[k + 1]

(* both documents well-formed: numeric totals, last_updated both strings or both numbers *)
WellFormedPair ==
    /\ HasStats(HW) /\ HasStats(TIPS)
    /\ IsNum(Total(HW)) /\ IsNum(Total(TIPS))
    /\ \/ IsStr(Updated(HW)) /\ IsStr(Updated(TIPS))
       \/ IsNum(Updated(HW)) /\ IsNum(Updated(TIPS))

TipsIsLater ==
    IF IsStr(Updated(HW))
    THEN LexLess(Updated(HW).s, Updated(TIPS).s)
    ELSE Updated(HW).n < Updated(TIPS).n

(* C6: for well-formed documents GET /api/statistics answers 200 with hardware and tips *)
(* the two statistics blocks, total_entries the sum of the totals, and last_updated the *)
(* greater last_updated value in value order, the hardware one when they are equal *)
C6_CombinedStatistics ==
    (IsReq("GET", <<"api", "statistics">>) /\ WellFormedPair) =>
        /\ One(200, Msg("OK"))
        /\ responses[1].body.kind = "json"
        /\ LET out == responses[1].body.value IN
           /\ IsDict(out)
           /\ DOMAIN out.o = {"hardware", "tips", "combined"}
           /\ out.o.hardware = Stats(HW)
           /\ out.o.tips = Stats(TIPS)
           /\ DOMAIN out.o.combined.o = {"total_entries", "last_updated"}
           /\ IsNum(out.o.combined.o.total_entries)
           /\ out.o.combined.o.total_entries.n = Total(HW).n + Total(TIPS).n
           /\ out.o.combined.o.last_updated =
                  IF TipsIsLater THEN Updated(TIPS) ELSE Updated(HW)

C6_Witness ==
    /\ IsReq("GET", <<"api", "statistics">>)
    /\ WellFormedPair
    /\ Updated(HW) = IntVal(1) /\ Updated(TIPS) = FloatVal(1)
    /\ One(200, Msg("OK"))
    /\ responses[1].body.value.o.combined.o.last_updated = IntVal(1)

(* what a data endpoint answers on the state of its own file *)
OwnFileOutcome(name, not_found, load_error) ==
    CASE files[name].st = "missing" ->
            /\ One(404, Msg(not_found))
            /\ log = <<>>
      [] files[name].st \in {"unreadable", "garbage"} ->
            /\ One(500, Msg(load_error))
            /\ responses[1].body = ErrorPage(500, Msg(load_error))
            /\ Len(log) = 1 /\ log[1].exc # ""
      [] OTHER ->
            /\ One(200, Msg("OK"))
            /\ responses[1].body = Dumps(Doc(name))

(* C7: GET /api/hardware and GET /api/tips answer on the state of their own file alone: *)
(* 404 with the named message when it is missing, 500 with the generic message and the *)
(* error only in the log when it cannot be read or parsed, 200 with the document else *)
C7_OwnFileDecides ==
    /\ IsReq("GET", <<"api", "hardware">>) =>
           OwnFileOutcome(HW, "Hardware database not found", "Error loading hardware database")
    /\ IsReq("GET", <<"api", "tips">>) =>
           OwnFileOutcome(TIPS, "Configuration tips database not found",
                          "Error loading configuration tips")

C7_Witness ==
    /\ IsReq("GET", <<"api", "tips">>)
    /\ files[HW].st = "missing"
    /\ files[TIPS].st = "json"
    /\ One(200, Msg("OK"))
    /\ responses[1].body = Dumps(Doc(TIPS))

(* a read or compute failure of the statistics endpoint *)
StatisticsFailure ==
    \/ ~HasStats(HW)
    \/ ~HasStats(TIPS)
    \/ ~(\/ IsNum(Total(HW)) /\ IsNum(Total(TIPS))
         \/ IsStr(Total(HW)) /\ IsStr(Total(TIPS)))
    \/ ~(\/ IsNum(Updated(HW)) /\ IsNum(Updated(TIPS))
         \/ IsStr(Updated(HW)) /\ IsStr(Updated(TIPS)))

(* C8: GET /api/statistics answers 500 "Error loading statistics" on every read or *)
(* compute failure, never 404, and never 200 with an object lacking `combined` *)
C8_StatisticsFailsWith500 ==
    IsReq("GET", <<"api", "statistics">>) =>
        /\ \A i \in 1..Len(responses) : responses[i].status # 404
        /\ StatisticsFailure => One(500, Msg("Error loading statistics"))
        /\ \A i \in 1..Len(responses) :
               responses[i].status = 200 =>
                   /\ responses[i].body.kind = "json"
                   /\ {"hardware", "tips", "combined"} \subseteq DOMAIN responses[i].body.value.o

C8_Witness ==
    /\ IsReq("GET", <<"api", "statistics">>)
    /\ files[HW].st = "json" /\ files[TIPS].st = "json"
    /\ Doc(HW) = EmptyObj
    /\ One(500, Msg("Error loading statistics"))

(* the answer to a GET handled in this step, on the data files as they are in this step *)
FreshAnswer(name, path) ==
    (tick' # tick /\ IsReq("GET", path)') =>
        /\ Len(responses') = 1
        /\ responses'[1].status = 404 <=> files[name].st = "missing"
        /\ responses'[1].status = 200 <=> files[name].st = "json"
        /\ files[name].st = "json" => responses'[1].body = Dumps(files[name].value)

FreshStatistics ==
    (tick' # tick /\ IsReq("GET", <<"api", "statistics">>)') =>
        /\ Len(responses') = 1
        /\ IF files[HW].st = "json" /\ files[TIPS].st = "json"
           THEN /\ responses'[1].status = 200
                /\ responses'[1].body.value.o.hardware = files[HW].value.o.statistics
                /\ responses'[1].body.value.o.tips = files[TIPS].value.o.statistics
           ELSE responses'[1].status = 500

(* C9: in any sequence of startups, data file changes and requests, a GET of a data *)
(* endpoint answers on the data files as they are when it is handled; no request changes *)
(* the data files; a start is refused only for an invalid port or a port in use *)
C9_FreshReads ==
    [][/\ FreshAnswer(HW, <<"api", "hardware">>)
       /\ FreshAnswer(TIPS, <<"api", "tips">>)
       /\ FreshStatistics
       /\ tick' # tick => files' = files
       /\ (server # "serving" /\ files' = files)
              => server' \in {"serving", "invalid_port", "port_in_use"}]_vars

C9_Witness ==
    /\ server = "serving"
    /\ HW \in missing_files
    /\ IsReq("GET", <<"api", "hardware">>)
    /\ One(200, Msg("OK"))
    /\ files[HW].st = "json"
    /\ responses[1].body = Dumps(Doc(HW))

(* C10: every request handled ends with exactly one response and no escaped exception *)
C10_ExactlyOneResponse ==
    request.method # "NONE" => (Len(responses) = 1 /\ raised = "none")

====
